---------------------------- MODULE Spec2Model ----------------------------
(***************************************************************************)
(* Model of the HTU31D driver (micropython_htu31d/htu31d.py).              *)
(*                                                                         *)
(* The driver object is the record `self` whose fields are the attributes  *)
(* assigned so far.  The I2C bus is the environment: every transaction may *)
(* succeed or raise OSError, and a read delivers bytes chosen by the       *)
(* device.  Each method is an operator from the object and the bus         *)
(* behaviour to an outcome (new object, transactions issued, exception,    *)
(* return value); each action applies one method atomically, as the driver *)
(* is synchronous and single-threaded.  time.sleep() is not modelled.      *)
(***************************************************************************)
EXTENDS Integers, Sequences, FiniteSets, TLC

VARIABLES
    session,  \* "absent" (before construction), "live", "failed" (__init__ raised)
    self,     \* attributes of the HTU31D object
    bus,      \* transactions issued by the most recent call, in order
    nbus,     \* number of transactions issued since the start
    lastOp,   \* name of the most recent call
    arg,      \* its argument (PyNone when it takes none)
    exc,      \* exception it raised, "none" if it returned
    ret,      \* its return value (PyNone when it raised)
    hist,     \* history: table indices of the labels last passed to the two
              \* resolution setters since the last __init__ or reset call
    crc       \* local variables of a running HTU31D._crc(value) call: pc is
              \* "idle", "loop" or "done", iter counts the loop iterations

vars == <<session, self, bus, nbus, lastOp, arg, exc, ret, hist, crc>>

\* Bound: total number of bus transactions in a behaviour.
MaxBus == 7

\* Bound: size of the sample of 16-bit values passed to _crc on its own.
CrcSample == 255

(***************************************************************************)
(* Module constants                                                        *)
(***************************************************************************)
_READSERIAL == 10
_SOFTRESET == 30
_HEATERON == 4
_HEATEROFF == 2
_CONVERSION == 64
_READTEMPHUM == 0

_HUMIDITY_RES == <<"0.020%", "0.014%", "0.010%", "0.007%">>
_TEMP_RES == <<"0.040", "0.025", "0.016", "0.012">>

DefaultAddress == 64

(***************************************************************************)
(* Python values                                                           *)
(***************************************************************************)
PyNone == [type |-> "NoneType", v |-> 0]
PyBool(b) == [type |-> "bool", v |-> b]
PyInt(n) == [type |-> "int", v |-> n]
PyStr(s) == [type |-> "str", v |-> s]
\* A float is kept as the exact rational v / 65535.
PyFloat(n) == [type |-> "float", v |-> n]
PyTuple(s) == [type |-> "tuple", v |-> s]

\* obj.name = val, creating the attribute when it does not exist yet
SetAttr(obj, name, val) ==
    [n \in DOMAIN obj \cup {name} |-> IF n = name THEN val ELSE obj[n]]

\* value in t, for a tuple t of strings
In(value, t) == value.type = "str" /\ \E i \in 1..Len(t) : t[i] = value.v

\* t.index(value), 0-based, for a value that is in t
Index(value, t) ==
    (CHOOSE i \in 1..Len(t) :
        t[i] = value.v /\ \A j \in 1..(i - 1) : t[j] # value.v) - 1

(***************************************************************************)
(* Integer bit operations on naturals                                      *)
(***************************************************************************)
RECURSIVE BitAnd(_, _)
BitAnd(a, b) ==
    IF a = 0 \/ b = 0 THEN 0
    ELSE (a % 2) * (b % 2) + 2 * BitAnd(a \div 2, b \div 2)

RECURSIVE BitOr(_, _)
BitOr(a, b) ==
    IF a = 0 THEN b
    ELSE IF b = 0 THEN a
    ELSE (IF a % 2 = 1 \/ b % 2 = 1 THEN 1 ELSE 0) + 2 * BitOr(a \div 2, b \div 2)

RECURSIVE BitXor(_, _)
BitXor(a, b) ==
    IF a = 0 THEN b
    ELSE IF b = 0 THEN a
    ELSE ((a + b) % 2) + 2 * BitXor(a \div 2, b \div 2)

\* a & ~b
BitAndNot(a, b) == a - BitAnd(a, b)

Shl(a, n) == a * (2 ^ n)
Shr(a, n) == a \div (2 ^ n)

(***************************************************************************)
(* Bus transactions                                                        *)
(***************************************************************************)
\* i2c.writeto(address, bytes(data), False)
Writeto(obj, data, ok) ==
    [kind |-> "writeto", addr |-> obj._address, data |-> data,
     n |-> Len(data), stop |-> FALSE, ok |-> ok]

\* i2c.readfrom_into(address, buf): n is len(buf), data the bytes delivered
Readfrom_into(obj, n, data, ok) ==
    [kind |-> "readfrom_into", addr |-> obj._address,
     data |-> IF ok THEN data ELSE <<>>, n |-> n, stop |-> TRUE, ok |-> ok]

\* Outcome of a call
Outcome(obj, txns, e, r) == [self |-> obj, bus |-> txns, exc |-> e, ret |-> r]

(***************************************************************************)
(* HTU31D.reset                                                            *)
(***************************************************************************)
\* reset that sends the opcode but keeps the command register
resetKeepsCommand(obj, ok) ==
    LET w == Writeto(obj, <<_SOFTRESET>>, ok)
    IN  IF ok THEN Outcome(obj, <<w>>, "none", PyNone)
        ELSE Outcome(obj, <<w>>, "OSError", PyNone)

\* reset that also clears the cached heater flag
resetClearsHeater(obj, ok) ==
    LET obj1 == SetAttr([obj EXCEPT !._conversion_command = _CONVERSION],
                        "_heater", FALSE)
        w == Writeto(obj1, <<_SOFTRESET>>, ok)
    IN  IF ok THEN Outcome(obj1, <<w>>, "none", PyNone)
        ELSE Outcome(obj1, <<w>>, "OSError", PyNone)

reset(obj, ok) ==
    LET obj1 == [obj EXCEPT !._conversion_command = _CONVERSION]
        w == Writeto(obj1, <<_SOFTRESET>>, ok)
    IN  IF ok THEN Outcome(obj1, <<w>>, "none", PyNone)
        ELSE Outcome(obj1, <<w>>, "OSError", PyNone)

(***************************************************************************)
(* HTU31D.__init__                                                         *)
(***************************************************************************)
\* __init__ without the call of reset()
__init__NoReset(address, ok) ==
    Outcome([_address |-> address,
             _buffer |-> <<0, 0, 0, 0>>,
             _data |-> <<0, 0, 0, 0, 0, 0>>,
             _conversion_command |-> _CONVERSION,
             _heater |-> FALSE],
            <<>>, "none", PyNone)

__init__(address, ok) ==
    LET obj0 == [_address |-> address,
                 _buffer |-> <<0, 0, 0, 0>>,
                 _data |-> <<0, 0, 0, 0, 0, 0>>,
                 _conversion_command |-> _CONVERSION]
        r == reset(obj0, ok)
    IN  IF r.exc # "none" THEN r
        ELSE [r EXCEPT !.self = SetAttr(r.self, "_heater", FALSE)]

(***************************************************************************)
(* HTU31D.heater                                                           *)
(***************************************************************************)
heater_get(obj) == Outcome(obj, <<>>, "none", PyBool(obj._heater))

\* heater setter with the two opcodes exchanged
heater_setSwapped(obj, new_mode, ok) ==
    IF new_mode.type # "bool"
    THEN Outcome(obj, <<>>, "AttributeError", PyNone)
    ELSE LET obj1 == [obj EXCEPT !._heater = new_mode.v]
             payload == IF new_mode.v THEN <<_HEATEROFF>> ELSE <<_HEATERON>>
             w == Writeto(obj1, payload, ok)
         IN  IF ok THEN Outcome(obj1, <<w>>, "none", PyNone)
             ELSE Outcome(obj1, <<w>>, "OSError", PyNone)

\* heater setter that accepts integers by their truth value
heater_setTruthy(obj, new_mode, ok) ==
    IF new_mode.type \notin {"bool", "int"}
    THEN Outcome(obj, <<>>, "AttributeError", PyNone)
    ELSE LET mode == IF new_mode.type = "bool" THEN new_mode.v ELSE new_mode.v # 0
             obj1 == [obj EXCEPT !._heater = mode]
             payload == IF mode THEN <<_HEATERON>> ELSE <<_HEATEROFF>>
             w == Writeto(obj1, payload, ok)
         IN  IF ok THEN Outcome(obj1, <<w>>, "none", PyNone)
             ELSE Outcome(obj1, <<w>>, "OSError", PyNone)

heater_set(obj, new_mode, ok) ==
    IF new_mode.type # "bool"
    THEN Outcome(obj, <<>>, "AttributeError", PyNone)
    ELSE LET obj1 == [obj EXCEPT !._heater = new_mode.v]
             payload == IF new_mode.v THEN <<_HEATERON>> ELSE <<_HEATEROFF>>
             w == Writeto(obj1, payload, ok)
         IN  IF ok THEN Outcome(obj1, <<w>>, "none", PyNone)
             ELSE Outcome(obj1, <<w>>, "OSError", PyNone)

(***************************************************************************)
(* struct.unpack, big-endian                                               *)
(***************************************************************************)
\* ">I": the unsigned value hi * 2^16 + lo, kept as its two 16-bit digits
\* <<hi, lo>> because it exceeds the model checker's integers
UnpackI(b) == <<b[1] * 256 + b[2], b[3] * 256 + b[4]>>
\* ">HBHB" gives <<H, B, H, B>>
UnpackHBHB(b) == <<b[1] * 256 + b[2], b[3], b[4] * 256 + b[5], b[6]>>

(***************************************************************************)
(* HTU31D.serial_number                                                    *)
(* fail = k: the k-th transaction of the call raises OSError (0: none);    *)
(* payload: the bytes the device delivers.  A failed read leaves the       *)
(* buffer as it was.                                                       *)
(***************************************************************************)
\* serial_number that repeats a failed opcode write once before it gives up
serial_numberRetriesWrite(obj, fail, payload) ==
    LET w == Writeto(obj, <<_READSERIAL>>, fail # 1)
        rd == Readfrom_into(obj, Len(obj._buffer), payload, fail # 2)
        obj1 == [obj EXCEPT !._buffer = payload]
        ser == PyTuple(<<PyInt(UnpackI(obj1._buffer))>>)
    IN  IF fail = 1 THEN Outcome(obj, <<w, w>>, "OSError", PyNone)
        ELSE IF fail = 2 THEN Outcome(obj, <<w, rd>>, "OSError", PyNone)
        ELSE Outcome(obj1, <<w, rd>>, "none", ser)

serial_number(obj, fail, payload) ==
    LET w == Writeto(obj, <<_READSERIAL>>, fail # 1)
        rd == Readfrom_into(obj, Len(obj._buffer), payload, fail # 2)
        obj1 == [obj EXCEPT !._buffer = payload]
        ser == PyTuple(<<PyInt(UnpackI(obj1._buffer))>>)
    IN  IF fail = 1 THEN Outcome(obj, <<w>>, "OSError", PyNone)
        ELSE IF fail = 2 THEN Outcome(obj, <<w, rd>>, "OSError", PyNone)
        ELSE Outcome(obj1, <<w, rd>>, "none", ser)

(***************************************************************************)
(* HTU31D._crc                                                             *)
(***************************************************************************)
\* the local variables before the loop
CrcLocals(value) ==
    [polynom |-> 9994240, msb |-> 8388608, mask |-> 16744448,
     result |-> Shl(value, 8)]

\* the loop condition, negated
CrcDone(l) == l.msb = 128

\* loop body that does not shift the polynomial
CrcBodyFixedPolynom(l) ==
    [l EXCEPT !.result = IF BitAnd(l.result, l.msb) # 0
                         THEN BitOr(BitAnd(BitXor(l.result, l.polynom), l.mask),
                                    BitAndNot(l.result, l.mask))
                         ELSE l.result,
              !.msb = Shr(l.msb, 1),
              !.mask = Shr(l.mask, 1)]

\* one pass through the loop body
CrcBody(l) ==
    [l EXCEPT !.result = IF BitAnd(l.result, l.msb) # 0
                         THEN BitOr(BitAnd(BitXor(l.result, l.polynom), l.mask),
                                    BitAndNot(l.result, l.mask))
                         ELSE l.result,
              !.msb = Shr(l.msb, 1),
              !.mask = Shr(l.mask, 1),
              !.polynom = Shr(l.polynom, 1)]

RECURSIVE CrcLoop(_, _, _, _)
CrcLoop(result, msb, mask, polynom) ==
    LET l == [polynom |-> polynom, msb |-> msb, mask |-> mask, result |-> result]
    IN  IF CrcDone(l) THEN result
        ELSE CrcLoop(CrcBody(l).result, CrcBody(l).msb, CrcBody(l).mask,
                     CrcBody(l).polynom)

\* Raw (temperature, humidity) pairs the device may deliver
RawPairs == {<<0, 65535>>, <<32767, 32768>>, <<65535, 0>>}

\* The checksum of each raw value the device may deliver, computed once
CrcMemo ==
    [value \in {p[1] : p \in RawPairs} \cup {p[2] : p \in RawPairs} |->
        CrcLoop(Shl(value, 8), 8388608, 16744448, 9994240)]

_crc(value) ==
    IF value \in DOMAIN CrcMemo THEN CrcMemo[value]
    ELSE CrcLoop(Shl(value, 8), 8388608, 16744448, 9994240)

(***************************************************************************)
(* HTU31D.measurements                                                     *)
(***************************************************************************)
\* value of a float or an int, in units of 1/65535
Num(x) == IF x.type = "float" THEN x.v ELSE x.v * 65535
\* min and max exchanged: min(a, b) computed as max(a, b)
PyMinAsMax(a, b) == IF Num(b) > Num(a) THEN b ELSE a

\* min(a, b) and max(a, b) return the first argument on a tie
PyMin(a, b) == IF Num(b) < Num(a) THEN b ELSE a
PyMax(a, b) == IF Num(b) > Num(a) THEN b ELSE a

\* CRC comparison that fails only when both checksums are wrong
CrcInvalidBoth(temperature, temp_crc, humidity, humidity_crc) ==
    temp_crc # _crc(temperature) /\ humidity_crc # _crc(humidity)

\* the CRC comparison of measurements
CrcInvalid(temperature, temp_crc, humidity, humidity_crc) ==
    temp_crc # _crc(temperature) \/ humidity_crc # _crc(humidity)

\* measurements with a temperature span of 175 instead of 165
measurementsSpan175(obj, fail, payload) ==
    LET w1 == Writeto(obj, <<obj._conversion_command>>, fail # 1)
        w2 == Writeto(obj, <<_READTEMPHUM>>, fail # 2)
        rd == Readfrom_into(obj, Len(obj._data), payload, fail # 3)
        obj1 == [obj EXCEPT !._data = payload]
        u == UnpackHBHB(obj1._data)
        temperature == PyFloat(-40 * 65535 + 175 * u[1])
        humidity == PyMax(PyMin(PyFloat(100 * u[3]), PyInt(100)), PyInt(0))
    IN  IF fail = 1 THEN Outcome(obj, <<w1>>, "OSError", PyNone)
        ELSE IF fail = 2 THEN Outcome(obj, <<w1, w2>>, "OSError", PyNone)
        ELSE IF fail = 3 THEN Outcome(obj, <<w1, w2, rd>>, "OSError", PyNone)
        ELSE IF CrcInvalid(u[1], u[2], u[3], u[4])
             THEN Outcome(obj1, <<w1, w2, rd>>, "RuntimeError", PyNone)
        ELSE Outcome(obj1, <<w1, w2, rd>>, "none",
                     PyTuple(<<temperature, humidity>>))

\* measurements that triggers with the base opcode instead of the register
measurementsBaseTrigger(obj, fail, payload) ==
    LET w1 == Writeto(obj, <<_CONVERSION>>, fail # 1)
        w2 == Writeto(obj, <<_READTEMPHUM>>, fail # 2)
        rd == Readfrom_into(obj, Len(obj._data), payload, fail # 3)
        obj1 == [obj EXCEPT !._data = payload]
        u == UnpackHBHB(obj1._data)
        temperature == PyFloat(-40 * 65535 + 165 * u[1])
        humidity == PyMax(PyMin(PyFloat(100 * u[3]), PyInt(100)), PyInt(0))
    IN  IF fail = 1 THEN Outcome(obj, <<w1>>, "OSError", PyNone)
        ELSE IF fail = 2 THEN Outcome(obj, <<w1, w2>>, "OSError", PyNone)
        ELSE IF fail = 3 THEN Outcome(obj, <<w1, w2, rd>>, "OSError", PyNone)
        ELSE IF CrcInvalid(u[1], u[2], u[3], u[4])
             THEN Outcome(obj1, <<w1, w2, rd>>, "RuntimeError", PyNone)
        ELSE Outcome(obj1, <<w1, w2, rd>>, "none",
                     PyTuple(<<temperature, humidity>>))

\* measurements that falls back to the base opcode once it has triggered
measurementsOneShot(obj, fail, payload) ==
    LET w1 == Writeto(obj, <<obj._conversion_command>>, fail # 1)
        w2 == Writeto(obj, <<_READTEMPHUM>>, fail # 2)
        rd == Readfrom_into(obj, Len(obj._data), payload, fail # 3)
        obj0 == [obj EXCEPT !._conversion_command = _CONVERSION]
        obj1 == [obj0 EXCEPT !._data = payload]
        u == UnpackHBHB(obj1._data)
        temperature == PyFloat(-40 * 65535 + 165 * u[1])
        humidity == PyMax(PyMin(PyFloat(100 * u[3]), PyInt(100)), PyInt(0))
    IN  IF fail = 1 THEN Outcome(obj, <<w1>>, "OSError", PyNone)
        ELSE IF fail = 2 THEN Outcome(obj0, <<w1, w2>>, "OSError", PyNone)
        ELSE IF fail = 3 THEN Outcome(obj0, <<w1, w2, rd>>, "OSError", PyNone)
        ELSE IF CrcInvalid(u[1], u[2], u[3], u[4])
             THEN Outcome(obj1, <<w1, w2, rd>>, "RuntimeError", PyNone)
        ELSE Outcome(obj1, <<w1, w2, rd>>, "none",
                     PyTuple(<<temperature, humidity>>))

measurements(obj, fail, payload) ==
    LET w1 == Writeto(obj, <<obj._conversion_command>>, fail # 1)
        w2 == Writeto(obj, <<_READTEMPHUM>>, fail # 2)
        rd == Readfrom_into(obj, Len(obj._data), payload, fail # 3)
        obj1 == [obj EXCEPT !._data = payload]
        u == UnpackHBHB(obj1._data)
        temperature == PyFloat(-40 * 65535 + 165 * u[1])
        humidity == PyMax(PyMin(PyFloat(100 * u[3]), PyInt(100)), PyInt(0))
    IN  IF fail = 1 THEN Outcome(obj, <<w1>>, "OSError", PyNone)
        ELSE IF fail = 2 THEN Outcome(obj, <<w1, w2>>, "OSError", PyNone)
        ELSE IF fail = 3 THEN Outcome(obj, <<w1, w2, rd>>, "OSError", PyNone)
        ELSE IF CrcInvalid(u[1], u[2], u[3], u[4])
             THEN Outcome(obj1, <<w1, w2, rd>>, "RuntimeError", PyNone)
        ELSE Outcome(obj1, <<w1, w2, rd>>, "none",
                     PyTuple(<<temperature, humidity>>))

\* relative_humidity projecting the first element
relative_humidityFirst(obj, fail, payload) ==
    LET r == measurements(obj, fail, payload)
    IN  IF r.exc # "none" THEN r ELSE [r EXCEPT !.ret = r.ret.v[1]]

\* HTU31D.relative_humidity: self.measurements[1]
relative_humidity(obj, fail, payload) ==
    LET r == measurements(obj, fail, payload)
    IN  IF r.exc # "none" THEN r ELSE [r EXCEPT !.ret = r.ret.v[2]]

\* HTU31D.temperature: self.measurements[0]
temperature(obj, fail, payload) ==
    LET r == measurements(obj, fail, payload)
    IN  IF r.exc # "none" THEN r ELSE [r EXCEPT !.ret = r.ret.v[1]]

(***************************************************************************)
(* HTU31D.humidity_resolution                                              *)
(***************************************************************************)
humidity_resolution_get(obj) ==
    Outcome(obj, <<>>, "none",
            PyStr(_HUMIDITY_RES[BitAnd(Shr(obj._conversion_command, 3), 3) + 1]))

\* humidity setter shifting the index to bits 4-5
humidity_resolution_setShift4(obj, value) ==
    IF ~In(value, _HUMIDITY_RES)
    THEN Outcome(obj, <<>>, "ValueError", PyNone)
    ELSE LET register == BitAnd(obj._conversion_command, 231)
             hum_res == Index(value, _HUMIDITY_RES)
         IN  Outcome([obj EXCEPT !._conversion_command =
                                     BitOr(register, Shl(hum_res, 4))],
                     <<>>, "none", PyNone)

\* humidity setter clearing both resolution fields (mask 0xE1)
humidity_resolution_setMaskE1(obj, value) ==
    IF ~In(value, _HUMIDITY_RES)
    THEN Outcome(obj, <<>>, "ValueError", PyNone)
    ELSE LET register == BitAnd(obj._conversion_command, 225)
             hum_res == Index(value, _HUMIDITY_RES)
         IN  Outcome([obj EXCEPT !._conversion_command =
                                     BitOr(register, Shl(hum_res, 3))],
                     <<>>, "none", PyNone)

\* humidity setter clearing its field before it validates the label
humidity_resolution_setClearFirst(obj, value) ==
    LET register == BitAnd(obj._conversion_command, 231)
    IN  IF ~In(value, _HUMIDITY_RES)
        THEN Outcome([obj EXCEPT !._conversion_command = register],
                     <<>>, "ValueError", PyNone)
        ELSE Outcome([obj EXCEPT !._conversion_command =
                         BitOr(register, Shl(Index(value, _HUMIDITY_RES), 3))],
                     <<>>, "none", PyNone)

humidity_resolution_set(obj, value) ==
    IF ~In(value, _HUMIDITY_RES)
    THEN Outcome(obj, <<>>, "ValueError", PyNone)
    ELSE LET register == BitAnd(obj._conversion_command, 231)
             hum_res == Index(value, _HUMIDITY_RES)
         IN  Outcome([obj EXCEPT !._conversion_command =
                                     BitOr(register, Shl(hum_res, 3))],
                     <<>>, "none", PyNone)

(***************************************************************************)
(* HTU31D.temp_resolution                                                  *)
(***************************************************************************)
temp_resolution_get(obj) ==
    Outcome(obj, <<>>, "none",
            PyStr(_TEMP_RES[BitAnd(Shr(obj._conversion_command, 1), 3) + 1]))

\* temperature setter clearing both resolution fields (mask 0xE1)
temp_resolution_setMaskE1(obj, value) ==
    IF ~In(value, _TEMP_RES)
    THEN Outcome(obj, <<>>, "ValueError", PyNone)
    ELSE LET register == BitAnd(obj._conversion_command, 225)
             temp_res == Index(value, _TEMP_RES)
         IN  Outcome([obj EXCEPT !._conversion_command =
                                     BitOr(register, Shl(temp_res, 1))],
                     <<>>, "none", PyNone)

temp_resolution_set(obj, value) ==
    IF ~In(value, _TEMP_RES)
    THEN Outcome(obj, <<>>, "ValueError", PyNone)
    ELSE LET register == BitAnd(obj._conversion_command, 249)
             temp_res == Index(value, _TEMP_RES)
         IN  Outcome([obj EXCEPT !._conversion_command =
                                     BitOr(register, Shl(temp_res, 1))],
                     <<>>, "none", PyNone)

(***************************************************************************)
(* Calls                                                                   *)
(***************************************************************************)
\* value is one of the labels of table t
IsLabel(value, t) == \E i \in 1..Len(t) : value = PyStr(t[i])

\* 0-based position of the label value in table t
LabelIndex(value, t) == CHOOSE i \in 0..(Len(t) - 1) : value = PyStr(t[i + 1])

\* the history after the call name(a)
HistNext(h, name, a) ==
    IF name \in {"__init__", "reset"} THEN [hum |-> 0, temp |-> 0]
    ELSE IF name = "humidity_resolution.setter" /\ IsLabel(a, _HUMIDITY_RES)
         THEN [h EXCEPT !.hum = LabelIndex(a, _HUMIDITY_RES)]
    ELSE IF name = "temp_resolution.setter" /\ IsLabel(a, _TEMP_RES)
         THEN [h EXCEPT !.temp = LabelIndex(a, _TEMP_RES)]
    ELSE h

Call(name, a, r) ==
    /\ nbus + Len(r.bus) <= MaxBus
    /\ hist' = HistNext(hist, name, a)
    /\ crc' = crc
    /\ self' = r.self
    /\ bus' = r.bus
    /\ nbus' = nbus + Len(r.bus)
    /\ lastOp' = name
    /\ arg' = a
    /\ exc' = r.exc
    /\ ret' = r.ret

HeaterInputs ==
    {PyBool(TRUE), PyBool(FALSE), PyInt(0), PyInt(1), PyStr("on"), PyNone}

\* Serial registers the device may deliver
SerialPayloads == {<<1, 2, 3, 4>>, <<255, 255, 255, 254>>}

\* CRC bytes sent for a raw value: the right one, and one with a flipped bit
CrcBytes(raw) == {_crc(raw), BitXor(_crc(raw), 1)}

Pack(t, tc, h, hc) == <<t \div 256, t % 256, tc, h \div 256, h % 256, hc>>

MeasurementPayloads ==
    UNION {{Pack(p[1], tc, p[2], hc) : tc \in CrcBytes(p[1]), hc \in CrcBytes(p[2])} :
           p \in RawPairs}

\* Values a caller may pass as a resolution
ResolutionInputs ==
    {PyStr(_HUMIDITY_RES[i]) : i \in 1..4} \cup {PyStr(_TEMP_RES[i]) : i \in 1..4}
    \cup {PyStr("0.099"), PyStr("0.020"), PyInt(0), PyNone}

\* What the bus does during a call of up to n transactions that ends in a
\* read: every transaction succeeds and the device delivers one of the
\* payloads, or the k-th transaction raises OSError and nothing is delivered.
BusBehaviours(n, payloads) ==
    {[fail |-> 0, payload |-> p] : p \in payloads}
    \cup {[fail |-> k, payload |-> <<>>] : k \in 1..n}

Construct ==
    /\ session = "absent"
    /\ \E ok \in BOOLEAN :
        /\ Call("__init__", PyNone, __init__(DefaultAddress, ok))
        /\ session' = IF ok THEN "live" ELSE "failed"

Reset ==
    /\ session = "live"
    /\ \E ok \in BOOLEAN : Call("reset", PyNone, reset(self, ok))
    /\ UNCHANGED session

GetHeater ==
    /\ session = "live"
    /\ Call("heater", PyNone, heater_get(self))
    /\ UNCHANGED session

SetHeater ==
    /\ session = "live"
    /\ \E new_mode \in HeaterInputs, ok \in BOOLEAN :
        Call("heater.setter", new_mode, heater_set(self, new_mode, ok))
    /\ UNCHANGED session

ReadSerialNumber ==
    /\ session = "live"
    /\ \E io \in BusBehaviours(2, SerialPayloads) :
        Call("serial_number", PyNone, serial_number(self, io.fail, io.payload))
    /\ UNCHANGED session

ReadMeasurements ==
    /\ session = "live"
    /\ \E io \in BusBehaviours(3, MeasurementPayloads) :
        Call("measurements", PyNone, measurements(self, io.fail, io.payload))
    /\ UNCHANGED session

ReadRelativeHumidity ==
    /\ session = "live"
    /\ \E io \in BusBehaviours(3, MeasurementPayloads) :
        Call("relative_humidity", PyNone, relative_humidity(self, io.fail, io.payload))
    /\ UNCHANGED session

ReadTemperature ==
    /\ session = "live"
    /\ \E io \in BusBehaviours(3, MeasurementPayloads) :
        Call("temperature", PyNone, temperature(self, io.fail, io.payload))
    /\ UNCHANGED session

GetHumidityResolution ==
    /\ session = "live"
    /\ Call("humidity_resolution", PyNone, humidity_resolution_get(self))
    /\ UNCHANGED session

SetHumidityResolution ==
    /\ session = "live"
    /\ \E value \in ResolutionInputs :
        Call("humidity_resolution.setter", value, humidity_resolution_set(self, value))
    /\ UNCHANGED session

GetTempResolution ==
    /\ session = "live"
    /\ Call("temp_resolution", PyNone, temp_resolution_get(self))
    /\ UNCHANGED session

SetTempResolution ==
    /\ session = "live"
    /\ \E value \in ResolutionInputs :
        Call("temp_resolution.setter", value, temp_resolution_set(self, value))
    /\ UNCHANGED session

(***************************************************************************)
(* HTU31D._crc called on its own, one loop iteration per step               *)
(***************************************************************************)
IdleFrame ==
    [pc |-> "idle", value |-> 0, iter |-> 0,
     polynom |-> 0, msb |-> 0, mask |-> 0, result |-> 0]

\* 16-bit values passed to _crc
CrcInputs ==
    UNION {{v, 65535 - v, (v * 251) % 65536} : v \in 0..CrcSample}

driverVars == <<session, self, bus, nbus, lastOp, arg, exc, ret, hist>>

CrcCall ==
    /\ crc.pc \in {"idle", "done"}
    /\ \E value \in CrcInputs :
        crc' = [pc |-> "loop", value |-> value, iter |-> 0,
                polynom |-> CrcLocals(value).polynom,
                msb |-> CrcLocals(value).msb,
                mask |-> CrcLocals(value).mask,
                result |-> CrcLocals(value).result]
    /\ UNCHANGED driverVars

CrcIterate ==
    /\ crc.pc = "loop"
    /\ ~CrcDone(crc)
    /\ crc' = [CrcBody(crc) EXCEPT !.iter = crc.iter + 1]
    /\ UNCHANGED driverVars

\* return result
CrcReturn ==
    /\ crc.pc = "loop"
    /\ CrcDone(crc)
    /\ crc' = [crc EXCEPT !.pc = "done"]
    /\ UNCHANGED driverVars

Init ==
    /\ session = "absent"
    /\ self = [_address |-> DefaultAddress]
    /\ bus = <<>>
    /\ nbus = 0
    /\ lastOp = "none"
    /\ arg = PyNone
    /\ exc = "none"
    /\ ret = PyNone
    /\ hist = [hum |-> 0, temp |-> 0]
    /\ crc = IdleFrame

Next ==
    \/ Construct
    \/ Reset
    \/ GetHeater
    \/ SetHeater
    \/ ReadSerialNumber
    \/ ReadMeasurements
    \/ ReadRelativeHumidity
    \/ ReadTemperature
    \/ GetHumidityResolution
    \/ SetHumidityResolution
    \/ GetTempResolution
    \/ SetTempResolution

Spec == Init /\ [][Next]_vars

NextCrc ==
    \/ CrcCall
    \/ CrcIterate
    \/ CrcReturn

SpecCrc == Init /\ [][NextCrc]_vars

(***************************************************************************)
(* Properties                                                              *)
(***************************************************************************)
\* the 6-byte payload d carries a CRC byte that is not the checksum of its raw value
PayloadCrcMismatch(d) ==
    \/ d[3] # _crc(d[1] * 256 + d[2])
    \/ d[6] # _crc(d[4] * 256 + d[5])

\* C1: whenever the object has a command register, the register fits in 8
\* bits and its bits outside the two resolution fields (mask 0xE1) are those
\* of the conversion opcode 0x40.
C1_OpcodeBitsFixed ==
    "_conversion_command" \in DOMAIN self =>
        /\ self._conversion_command \in 0..255
        /\ BitAnd(self._conversion_command, 225) = 64

\* C1 witness: both resolution fields have been set to index 3.
C1_Witness ==
    /\ lastOp = "temp_resolution.setter"
    /\ exc = "none"
    /\ self._conversion_command = 94

\* C2: when measurements has read a payload with a wrong temperature or
\* humidity CRC byte, it raises RuntimeError, returns nothing, and the read
\* is the last transaction it issued.
C2_ChecksumErrorOnMismatch ==
    \A i \in 1..Len(bus) :
        ( /\ lastOp = "measurements"
          /\ bus[i].kind = "readfrom_into"
          /\ bus[i].ok
          /\ PayloadCrcMismatch(bus[i].data) )
        => /\ exc = "RuntimeError"
           /\ ret = PyNone
           /\ i = Len(bus)
           /\ Len(bus) = 3

\* C2 witness: a payload whose temperature CRC is right and whose humidity
\* CRC is wrong was rejected.
C2_Witness ==
    /\ lastOp = "measurements"
    /\ exc = "RuntimeError"
    /\ Len(bus) = 3
    /\ bus[3].ok
    /\ bus[3].data[3] = _crc(bus[3].data[1] * 256 + bus[3].data[2])
    /\ bus[3].data[6] # _crc(bus[3].data[4] * 256 + bus[3].data[5])

\* C3: a heater set whose bus write fails leaves the cached heater flag as
\* it was before the call.
C3_HeaterCacheKeptOnWriteFailure ==
    [][(lastOp' = "heater.setter" /\ exc' = "OSError")
        => self'._heater = self._heater]_vars

\* C4: setting the humidity resolution to one of its four labels succeeds,
\* the getter then returns that label, and every bit outside the humidity
\* field (mask 0xE7: opcode bits and temperature field) is as before.
C4_HumidityRoundTrip ==
    [][(lastOp' = "humidity_resolution.setter" /\ IsLabel(arg', _HUMIDITY_RES))
        => /\ exc' = "none"
           /\ humidity_resolution_get(self').ret = arg'
           /\ BitAnd(self'._conversion_command, 231) =
                  BitAnd(self._conversion_command, 231)]_vars

\* C4 witness: humidity set to "0.007%" while the temperature field is 3.
C4_Witness ==
    /\ lastOp = "humidity_resolution.setter"
    /\ exc = "none"
    /\ arg = PyStr("0.007%")
    /\ BitAnd(self._conversion_command, 6) = 6

\* C5: setting the temperature resolution to one of its four labels
\* succeeds, the getter then returns that label, and every bit outside the
\* temperature field (mask 0xF9: opcode bits and humidity field) is as before.
C5_TemperatureRoundTrip ==
    [][(lastOp' = "temp_resolution.setter" /\ IsLabel(arg', _TEMP_RES))
        => /\ exc' = "none"
           /\ temp_resolution_get(self').ret = arg'
           /\ BitAnd(self'._conversion_command, 249) =
                  BitAnd(self._conversion_command, 249)]_vars

\* C5 witness: temperature set to "0.012" while the humidity field is 3.
C5_Witness ==
    /\ lastOp = "temp_resolution.setter"
    /\ exc = "none"
    /\ arg = PyStr("0.012")
    /\ BitAnd(self._conversion_command, 24) = 24

\* C6: a resolution set with a value that is not a label of that field
\* raises ValueError, leaves the object unchanged and issues no transaction.
C6_InvalidResolutionRejected ==
    [][ /\ (lastOp' = "humidity_resolution.setter" /\ ~IsLabel(arg', _HUMIDITY_RES))
            => (exc' = "ValueError" /\ self' = self /\ bus' = <<>> /\ nbus' = nbus)
        /\ (lastOp' = "temp_resolution.setter" /\ ~IsLabel(arg', _TEMP_RES))
            => (exc' = "ValueError" /\ self' = self /\ bus' = <<>> /\ nbus' = nbus)
      ]_vars

\* C6 witness: the humidity setter rejected a temperature label while the
\* humidity field was not 0.
C6_Witness ==
    /\ lastOp = "humidity_resolution.setter"
    /\ exc = "ValueError"
    /\ arg = PyStr("0.040")
    /\ BitAnd(self._conversion_command, 24) = 24

\* C7: a heater set with a non-boolean value raises AttributeError, leaves
\* the object unchanged and issues no transaction.
C7_NonBooleanHeaterRejected ==
    [][(lastOp' = "heater.setter" /\ arg'.type # "bool")
        => (exc' = "AttributeError" /\ self' = self /\ bus' = <<>> /\ nbus' = nbus)]_vars

\* C7 witness: the integer 0 was rejected while the heater flag was true.
C7_Witness ==
    /\ lastOp = "heater.setter"
    /\ exc = "AttributeError"
    /\ arg = PyInt(0)
    /\ self._heater = TRUE

\* C8: right after a successful construction the heater getter returns
\* False, the command register is 0x40, the resolution getters return
\* "0.020%" and "0.040", and the only transaction issued is a one-byte
\* write of 0x1E.
C8_StateAfterConstruction ==
    (lastOp = "__init__" /\ exc = "none")
        => /\ heater_get(self).ret = PyBool(FALSE)
           /\ self._conversion_command = 64
           /\ humidity_resolution_get(self).ret = PyStr("0.020%")
           /\ temp_resolution_get(self).ret = PyStr("0.040")
           /\ nbus = 1
           /\ Len(bus) = 1
           /\ bus[1].kind = "writeto"
           /\ bus[1].data = <<30>>

\* C8 witness: a construction that succeeded.
C8_Witness ==
    /\ session = "live"
    /\ lastOp = "__init__"
    /\ exc = "none"

\* C9: a serial_number read that succeeds wrote 0x0A, read 4 bytes, and
\* returns one integer, the big-endian value of those bytes.
C9_SerialNumberIsInteger ==
    (lastOp = "serial_number" /\ exc = "none")
        => /\ Len(bus) = 2
           /\ bus[1].kind = "writeto" /\ bus[1].data = <<10>>
           /\ bus[2].kind = "readfrom_into" /\ bus[2].n = 4
           /\ ret.type = "int"
           /\ ret.v = <<bus[2].data[1] * 256 + bus[2].data[2],
                        bus[2].data[3] * 256 + bus[2].data[4]>>

\* C10: a heater set with a boolean whose write succeeds issues exactly one
\* transaction, a one-byte write of 0x04 for True and 0x02 for False, and
\* the getter then returns that boolean; the getter returns the cached flag,
\* issues no transaction and changes nothing.
C10_HeaterSetAndGet ==
    [][ /\ (lastOp' = "heater.setter" /\ arg'.type = "bool" /\ exc' = "none")
            => /\ nbus' = nbus + 1
               /\ Len(bus') = 1
               /\ bus'[1].kind = "writeto"
               /\ bus'[1].data = <<IF arg'.v THEN 4 ELSE 2>>
               /\ heater_get(self').ret = arg'
        /\ lastOp' = "heater"
            => /\ ret' = PyBool(self._heater)
               /\ exc' = "none"
               /\ bus' = <<>>
               /\ nbus' = nbus
               /\ self' = self
               /\ session' = session
      ]_vars

\* C10 witness: the heater was switched on.
C10_Witness ==
    /\ lastOp = "heater.setter"
    /\ exc = "none"
    /\ arg = PyBool(TRUE)
    /\ bus[1].data = <<4>>
    /\ self._heater = TRUE


RawTemperature(d) == d[1] * 256 + d[2]
RawHumidity(d) == d[4] * 256 + d[5]

\* C12: the humidity returned by measurements is the float 100 * raw / 65535
\* of the raw humidity read (floats are counted in units of 1/65535); it is
\* at least 0 and at most 100, 0 for raw 0 and 100 for raw 65535.
C12_HumidityConversion ==
    (lastOp = "measurements" /\ exc = "none")
        => LET raw == RawHumidity(bus[3].data)
               hum == ret.v[2]
           IN  /\ hum = PyFloat(100 * raw)
               /\ hum.v >= 0 * 65535
               /\ hum.v <= 100 * 65535
               /\ raw = 0 => hum.v = 0
               /\ raw = 65535 => hum.v = 100 * 65535

\* C12 witness: a measurement with raw humidity 65535 returned 100.
C12_Witness ==
    /\ lastOp = "measurements"
    /\ exc = "none"
    /\ RawHumidity(bus[3].data) = 65535
    /\ ret.v[2].v = 100 * 65535

\* C13: the temperature returned by measurements is the float
\* -40 + 165 * raw / 65535 of the raw temperature read (in units of 1/65535);
\* it is at least -40 and at most 125, -40 for raw 0 and 125 for raw 65535.
C13_TemperatureConversion ==
    (lastOp = "measurements" /\ exc = "none")
        => LET raw == RawTemperature(bus[3].data)
               temp == ret.v[1]
           IN  /\ temp = PyFloat(165 * raw - 40 * 65535)
               /\ temp.v >= -40 * 65535
               /\ temp.v <= 125 * 65535
               /\ raw = 0 => temp.v = -40 * 65535
               /\ raw = 65535 => temp.v = 125 * 65535

\* C13 witness: a measurement with a raw temperature strictly between the
\* two ends returned a temperature strictly between -40 and 125.
C13_Witness ==
    /\ lastOp = "measurements"
    /\ exc = "none"
    /\ RawTemperature(bus[3].data) = 32767
    /\ ret.v[1].v > -40 * 65535
    /\ ret.v[1].v < 125 * 65535


\* the transactions b are one conversion cycle triggered with byte cmd: a
\* one-byte write of cmd, a one-byte write of 0x00, a read of 6 bytes
IsCycle(b, cmd) ==
    /\ Len(b) = 3
    /\ b[1].kind = "writeto" /\ b[1].data = <<cmd>> /\ b[1].n = 1
    /\ b[2].kind = "writeto" /\ b[2].data = <<0>> /\ b[2].n = 1
    /\ b[3].kind = "readfrom_into" /\ b[3].n = 6 /\ Len(b[3].data) = 6

\* C14: a measurements call in which no transaction fails (it returns or
\* raises the checksum error) issues exactly three transactions: a one-byte
\* write of the command register as it was at the call, a one-byte write of
\* 0x00 and one read of 6 bytes, in this order.
C14_MeasurementCycle ==
    [][(lastOp' = "measurements" /\ exc' # "OSError")
        => /\ IsCycle(bus', self._conversion_command)
           /\ \A i \in 1..3 : bus'[i].ok
           /\ nbus' = nbus + 3]_vars

\* C14 witness: a measurement was triggered with both resolution fields at 3.
C14_Witness ==
    /\ lastOp = "measurements"
    /\ exc = "none"
    /\ Len(bus) = 3
    /\ bus[1].data = <<94>>


\* C15: a resolution set with a valid label issues no transaction, and the
\* first byte written by a measurements, temperature or relative_humidity
\* call is 0x40 | (h << 3) | (t << 1), h and t being the table indices of
\* the humidity and temperature labels last set since the last __init__ or
\* reset call (0 when none was set).
C15_TriggerByteFollowsResolution ==
    [][ /\ ( \/ (lastOp' = "humidity_resolution.setter" /\ IsLabel(arg', _HUMIDITY_RES))
             \/ (lastOp' = "temp_resolution.setter" /\ IsLabel(arg', _TEMP_RES)) )
            => (bus' = <<>> /\ nbus' = nbus)
        /\ lastOp' \in {"measurements", "temperature", "relative_humidity"}
            => /\ bus'[1].kind = "writeto"
               /\ bus'[1].data = <<BitOr(BitOr(64, Shl(hist.hum, 3)), Shl(hist.temp, 1))>>
      ]_vars

\* C15 witness: after humidity index 2 and temperature index 1 were set, a
\* measurement was triggered with 0x40 | 0x10 | 0x02.
C15_Witness ==
    /\ lastOp = "measurements"
    /\ hist = [hum |-> 2, temp |-> 1]
    /\ bus[1].data = <<82>>


\* C17: a temperature or relative_humidity call that returns has run one
\* conversion cycle of its own (three transactions, triggered with the
\* current command register) and returns the first, respectively the second,
\* element of what measurements returns for the payload read in that very
\* call; when one follows the other the second call again issues three
\* transactions, six in all.
C17_WrappersRunOwnCycle ==
    [][ /\ (lastOp' = "temperature" /\ exc' = "none")
            => /\ IsCycle(bus', self._conversion_command)
               /\ nbus' = nbus + 3
               /\ ret' = measurements(self, 0, bus'[3].data).ret.v[1]
               /\ ret' = PyFloat(165 * RawTemperature(bus'[3].data) - 40 * 65535)
        /\ (lastOp' = "relative_humidity" /\ exc' = "none")
            => /\ IsCycle(bus', self._conversion_command)
               /\ nbus' = nbus + 3
               /\ ret' = measurements(self, 0, bus'[3].data).ret.v[2]
               /\ ret' = PyFloat(100 * RawHumidity(bus'[3].data))
        /\ ( /\ lastOp \in {"temperature", "relative_humidity"}
             /\ lastOp' \in {"temperature", "relative_humidity"}
             /\ exc = "none" /\ exc' = "none" )
            => Len(bus) + Len(bus') = 6
      ]_vars

\* C17 witness: a relative_humidity call returned the humidity of the
\* payload it read itself, after enough transactions for a cycle before it.
C17_Witness ==
    /\ lastOp = "relative_humidity"
    /\ exc = "none"
    /\ nbus = 7
    /\ RawHumidity(bus[3].data) = 32768
    /\ ret = PyFloat(100 * 32768)


\* C18: in the transactions of any call, a transaction that failed is the
\* last one (it is not repeated and none follows it), the call raised
\* OSError and returned nothing; a call raises OSError only when its last
\* transaction failed, and a construction whose write failed gives no session.
C18_TransportErrorPropagates ==
    /\ \A i \in 1..Len(bus) :
           ~bus[i].ok => (i = Len(bus) /\ exc = "OSError" /\ ret = PyNone)
    /\ exc = "OSError" => (Len(bus) >= 1 /\ ~bus[Len(bus)].ok)
    /\ (lastOp = "__init__" /\ exc = "OSError") => session = "failed"

\* C18 witness: a measurement whose trigger write failed stopped after it.
C18_Witness ==
    /\ lastOp = "measurements"
    /\ exc = "OSError"
    /\ Len(bus) = 1
    /\ ~bus[1].ok
    /\ self._conversion_command = 94

\* C19: measurements, temperature, relative_humidity and serial_number
\* leave the command register and the cached heater flag as they were,
\* whatever the outcome, so the three getters return what they returned
\* before the call.
C19_ReadsKeepConfiguration ==
    [][lastOp' \in {"measurements", "temperature", "relative_humidity", "serial_number"}
        => /\ self'._conversion_command = self._conversion_command
           /\ self'._heater = self._heater
           /\ humidity_resolution_get(self').ret = humidity_resolution_get(self).ret
           /\ temp_resolution_get(self').ret = temp_resolution_get(self).ret
           /\ heater_get(self').ret = heater_get(self).ret]_vars

\* C19 witness: a measurement ended in the checksum error while the heater
\* flag was true and both resolution fields were 3.
C19_Witness ==
    /\ lastOp = "measurements"
    /\ exc = "RuntimeError"
    /\ self._heater = TRUE
    /\ self._conversion_command = 94


\* The CRC-8 of a 24-bit message by the usual shift register: the message
\* enters an 8-bit register bit by bit, most significant bit first, and the
\* register is reduced by x^8 + x^5 + x^4 + 1 (0x131) whenever a 1 leaves it.
RECURSIVE RefCrcBits(_, _, _)
RefCrcBits(reg, msg, k) ==
    IF k = 0 THEN reg
    ELSE LET shifted == reg * 2 + ((msg \div (2 ^ (k - 1))) % 2)
         IN  RefCrcBits(IF shifted >= 256 THEN BitXor(shifted - 256, 49)
                        ELSE shifted,
                        msg, k - 1)

\* initial value 0, the 16-bit value padded with 8 zero bits
RefCrc8(value) == RefCrcBits(0, value * 256, 24)

\* C16: a call _crc(value) on a 16-bit value never runs more than 16 loop
\* iterations, leaves the loop exactly when 16 have run, and returns a
\* value in 0..255 that is the bit-serial CRC-8 of value (MSB first,
\* polynomial x^8 + x^5 + x^4 + 1, initial value 0, 8 zero bits appended),
\* which is also what the operator _crc used by measurements gives.
C16_CrcIsCrc8 ==
    /\ crc.iter <= 16
    /\ crc.pc = "loop" => (CrcDone(crc) <=> crc.iter = 16)
    /\ crc.pc = "done"
        => /\ crc.iter = 16
           /\ crc.result \in 0..255
           /\ crc.result = RefCrc8(crc.value)
           /\ crc.result = _crc(crc.value)

\* C16 witness: the call on 0xFFFF returned 45 after its loop.
C16_Witness ==
    /\ crc.pc = "done"
    /\ crc.value = 65535
    /\ crc.result = 45
    /\ crc.iter = 16

=============================================================================
